---- MODULE Spec2Model ----
(***************************************************************************)
(* A model of the UmbraX / Quantum Engine Vulkan renderer                  *)
(* (qe-renderer-vulkan/src/main/cpp).                                      *)
(*                                                                         *)
(* The renderer object (class VulkanRendererNative) is the record          *)
(* `renderer`: one field per member of the class, plus the ghost field     *)
(* `live`, the number of device objects of each kind that the Vulkan       *)
(* implementation has created for this renderer and that have not been     *)
(* destroyed, and the ghost fields `op` and `log`: the lifecycle function  *)
(* that ran most recently (initialize, setSurface, recreateSwapchain,      *)
(* shutdown, and loadMesh of vk_buffer.cpp) and the steps it took, in      *)
(* order; and the ghost field                                              *)
(* `staleReport`: an acquire or a present has reported the swapchain       *)
(* suboptimal or out of date and recreateSwapchain has not run since.      *)
(* A handle member is TRUE when it holds a non-null handle.                *)
(* A std::vector of handles is a sequence of such booleans                 *)
(* (swapchainImages, whose elements are never null, is its size).          *)
(*                                                                         *)
(* Several member functions are defined twice in the repository: once in   *)
(* vulkan_renderer_native.cpp and once in a vk_*.cpp file.  A program is   *)
(* linked from one definition of each; `build` says which set the          *)
(* program was linked from:                                                *)
(*   "native": every definition comes from vulkan_renderer_native.cpp      *)
(*   "split" : the vk_*.cpp definition is used where one exists            *)
(***************************************************************************)
EXTENDS Integers, Sequences, FiniteSets, TLC

\* ---- bounds of the model ------------------------------------------------
MaxCalls == 2        \* resource calls (load/compile/create) per behaviour
MaxLifecycle == 4    \* initialize / setSurface / recreateSwapchain calls
MaxOps == 4          \* lifecycle and resource calls together
MaxImages == 2       \* largest number of images a swapchain is given
MaxIndexCount == 1   \* largest indexCount argument of loadMesh
MaxShaderArg == 1    \* largest shader handle passed to createGraphicsPipeline
MaxFamilies == 2     \* largest number of queue families of a device
MaxDevices == 1      \* largest number of physical devices enumerated
MaxMinImageCount == 2   \* largest minImageCount a surface reports
MaxMaxImageCount == 3   \* largest maxImageCount a surface reports
MaxFloat == 2        \* largest colour component passed to setClearColor
MaxVersionPart == 1  \* largest major, minor and patch number of a version
MaxMemoryTypes == 2  \* largest memoryTypeCount of a device
MaxAttributeCount == 1   \* largest normalCount / uvCount of loadMesh

\* ---- program constants --------------------------------------------------
MinImages == 2       \* createInfo.minImageCount
Sentinel == 0        \* the handle returned by a failed load
\* "No queue family": 2^32 - 1 in the source, the uint32_t value of -1.  It
\* is written -1 here (the model checker's integers are 32 bits, signed); all
\* the code does with it is compare it for equality, and no family index
\* equals it.
UINT32_MAX == -1

Builds == {"native", "split"}
Threads == {1, 2}

Kinds == {"instance", "device", "surface", "swapchain", "imageView",
          "renderPass", "framebuffer", "commandPool", "commandBuffer",
          "semaphore", "fence", "descriptorPool", "buffer", "memory",
          "image", "sampler", "shaderModule",
          "stagingBuffer", "stagingMemory"}

VARIABLES
  build,        \* which definitions the program was linked from
  renderer,     \* the VulkanRendererNative object
  initOK,       \* the last initialize() returned true and no shutdown since
  crashed,      \* the process has died (an outcome of undefined behaviour)
  signaled,     \* device state of the fence and the two semaphores
  acquired,     \* swapchain images held by the application
  presentQ,     \* swapchain images queued for presentation
  pc,           \* position of the rendering thread
  frameBegun,   \* a beginFrame has returned and no endFrame since
  apiLog,       \* Vulkan calls issued by the current frame, in order
  lastAcquire,  \* result of the most recent vkAcquireNextImageKHR
  returned,     \* results of the resource calls so far, in call order
  lastCall,     \* the most recent resource call and what happened in it
  ncalls,       \* number of resource calls so far
  nlife,        \* number of initialize / setSurface / recreateSwapchain calls
  tpc,          \* position of each loader thread
  tloc          \* locals of each loader thread

vars == <<build, renderer, initOK, crashed, signaled, acquired, presentQ, pc,
          frameBegun, apiLog, lastAcquire, returned, lastCall, ncalls, nlife,
          tpc, tloc>>

frameVars == <<signaled, acquired, presentQ, pc, frameBegun, apiLog,
               lastAcquire>>
callVars == <<returned, lastCall, ncalls>>
threadVars == <<tpc, tloc>>

\* ---- helpers ------------------------------------------------------------
Bump(S, kind, n) == [S EXCEPT !.live[kind] = @ + n]

Drop(S, kind, n) == [S EXCEPT !.live[kind] = @ - n]

Keys(S) == [meshes |-> DOMAIN S.meshes, textures |-> S.textures,
            shaders |-> S.shaders, pipelines |-> S.pipelines]

\* A lifecycle function is entered / takes a step.
Enter(S, name) == [S EXCEPT !.op = name, !.log = <<>>]

Log(S, step) == [S EXCEPT !.log = Append(@, step)]

LogIf(S, cond, step) == IF cond THEN Log(S, step) ELSE S

NoKeys == [meshes |-> {}, textures |-> {}, shaders |-> {}, pipelines |-> {}]

NoCall == [op |-> "none", ret |-> 0, failed |-> FALSE, before |-> NoKeys,
           unresolved |-> FALSE]

\* ---- the platform ---------------------------------------------------------
\* What the Vulkan implementation reports: the number of physical devices
\* and the queue families of the first of them, each family the set of
\* its capability bits (G graphics, C compute, T transfer).  A device has at
\* least one family.  The ghost field renderer.platform holds what the
\* platform reported to the most recent initialize(); a platform reports
\* the same to every call.
QueueBits == {"G", "C", "T"}

FamilyLists ==
  UNION {[1..n -> SUBSET QueueBits] : n \in 1..MaxFamilies}

\* VK_MAKE_VERSION(major, minor, patch)
MakeVersion(major, minor, patch) == major * 2^22 + minor * 2^12 + patch

Versions ==
  {MakeVersion(a, b, c) : a, b, c \in 0..MaxVersionPart}

\* The apiVersion and driverVersion of VkPhysicalDeviceProperties.
Properties == [apiVersion : Versions, driverVersion : Versions]

DefaultProperties == [apiVersion |-> MakeVersion(1, 0, 0),
                      driverVersion |-> MakeVersion(1, 0, 0)]

\* The value of a VulkanInfo no call has returned yet.
NoInfo == [apiVersion |-> <<>>, driverVersion |-> <<>>, returned |-> FALSE]

NoPlatform == [devices |-> -1, families |-> <<>>,
               properties |-> DefaultProperties]

\* The platform of the behaviours that do not vary it.
DefaultFamilies == << QueueBits >>

\* What vkGetPhysicalDeviceSurfaceCapabilitiesKHR reports for a surface:
\* maxImageCount is 0 (no maximum) or at least minImageCount.  The ghost
\* field renderer.capabilities holds those of the surface most recently
\* created, renderer.minImageCount the createInfo.minImageCount of the
\* most recent vkCreateSwapchainKHR (0: none yet).
Capabilities ==
  {c \in [minImageCount : 1..MaxMinImageCount,
          maxImageCount : 0..MaxMaxImageCount] :
      c.maxImageCount = 0 \/ c.maxImageCount >= c.minImageCount}

NoCapabilities == [minImageCount |-> 0, maxImageCount |-> 0]

\* The surface of the behaviours that do not vary it.
DefaultCapabilities == [minImageCount |-> 1, maxImageCount |-> 0]

\* The memory types of the physical device
\* (vkGetPhysicalDeviceMemoryProperties): each the set of its property
\* flags.  A type filter (memoryTypeBits) is the set of the indices whose
\* bit is set; the requirements of a buffer or an image name at least one
\* type.  The ghost field renderer.allocInfo holds the memory types, the
\* filter, the required flags and the memoryTypeIndex of the most recent
\* vkAllocateMemory of createBuffer or loadTexture.
MemoryPropertyFlags == {"DEVICE_LOCAL", "HOST_VISIBLE"}

MemoryTypeLists ==
  UNION {[1..n -> SUBSET MemoryPropertyFlags] : n \in 1..MaxMemoryTypes}

TypeFilters(memoryTypes) == (SUBSET (0..(Len(memoryTypes) - 1))) \ {{}}

NoAllocInfo == [memoryTypes |-> <<>>, typeFilter |-> {}, properties |-> {},
                memoryTypeIndex |-> 0, attempted |-> FALSE]

\* A float colour component is written in units of 0.05: the constructor's
\* {0.1f, 0.1f, 0.15f, 1.0f} is <<2, 2, 3, 20>>.  Components are stored and
\* never computed with.  The ghost field renderer.clearColorArgs holds the
\* arguments of the most recent setClearColor (<<>>: none yet).
Floats == 0..MaxFloat

\* ---- construction -------------------------------------------------------
VulkanRendererNative ==
  [ instance |-> FALSE, physicalDevice |-> FALSE, device |-> FALSE,
    surface |-> FALSE, swapchain |-> FALSE, renderPass |-> FALSE,
    commandPool |-> FALSE, computeCommandPool |-> FALSE,
    imageAvailableSemaphore |-> FALSE, renderFinishedSemaphore |-> FALSE,
    inFlightFence |-> FALSE, descriptorPool |-> FALSE,
    swapchainImages |-> 0, swapchainImageViews |-> <<>>,
    framebuffers |-> <<>>, commandBuffers |-> <<>>,
    currentFrame |-> 0, imageIndex |-> 0,
    nextResourceId |-> 1,
    meshes |-> <<>>, textures |-> {}, shaders |-> {}, pipelines |-> {},
    live |-> [k \in Kinds |-> 0],
    graphicsQueueFamily |-> UINT32_MAX, computeQueueFamily |-> UINT32_MAX,
    transferQueueFamily |-> UINT32_MAX,
    op |-> "constructor", log |-> <<>>, staleReport |-> FALSE,
    platform |-> NoPlatform,
    capabilities |-> NoCapabilities, minImageCount |-> 0,
    clearColor |-> <<2, 2, 3, 20>>, clearColorArgs |-> <<>>,
    deviceProperties |-> DefaultProperties, info |-> NoInfo,
    allocInfo |-> NoAllocInfo ]

Init ==
  /\ build \in Builds
  /\ renderer = VulkanRendererNative
  /\ initOK = FALSE
  /\ crashed = FALSE
  /\ signaled = [fence |-> FALSE, imageAvailable |-> FALSE,
                 renderFinished |-> FALSE]
  /\ acquired = {}
  /\ presentQ = {}
  /\ pc = "idle"
  /\ frameBegun = FALSE
  /\ apiLog = <<>>
  /\ lastAcquire = "none"
  /\ returned = <<>>
  /\ lastCall = NoCall
  /\ ncalls = 0
  /\ nlife = 0
  /\ tpc = [t \in Threads |-> "idle"]
  /\ tloc = [t \in Threads |-> [kind |-> "none", handle |-> 0]]

\* ---- initialize and its steps -------------------------------------------
\* The places where initialize() can fail, in the order the code reaches
\* them; "none" is the successful run.
InitFailPoints == <<"instance", "physical", "device", "pool1", "pool2",
                    "sem1", "sem2", "fence", "descriptorPool", "none">>

Rank(f) == CHOOSE i \in DOMAIN InitFailPoints : InitFailPoints[i] = f

createInstance(S, f) ==
  IF f = "instance" THEN S
  ELSE Bump([S EXCEPT !.instance = TRUE], "instance", 1)

pickPhysicalDevice(S, f) ==
  IF f = "physical" THEN S ELSE [S EXCEPT !.physicalDevice = TRUE]

createLogicalDevice(S, f) ==
  IF f = "device" THEN S
  ELSE Bump([S EXCEPT !.device = TRUE], "device", 1)

createCommandPools(S, f) ==
  IF f = "pool1" THEN S
  ELSE LET S1 == Bump([S EXCEPT !.commandPool = TRUE], "commandPool", 1)
       IN  IF f = "pool2" THEN S1
           ELSE Bump([S1 EXCEPT !.computeCommandPool = TRUE],
                     "commandPool", 1)

createSyncObjects(S, f) ==
  IF f = "sem1" THEN S
  ELSE LET S1 == Bump([S EXCEPT !.imageAvailableSemaphore = TRUE],
                      "semaphore", 1)
       IN  IF f = "sem2" THEN S1
           ELSE LET S2 == Bump([S1 EXCEPT !.renderFinishedSemaphore = TRUE],
                               "semaphore", 1)
                IN  IF f = "fence" THEN S2
                    ELSE Bump([S2 EXCEPT !.inFlightFence = TRUE], "fence", 1)

createDescriptorPool(S, f) ==
  IF f = "descriptorPool" THEN S
  ELSE Bump([S EXCEPT !.descriptorPool = TRUE], "descriptorPool", 1)

\* initialize(): each step runs only if every earlier one succeeded; a
\* failing step returns false at once and nothing is undone.
\* initialize() that goes on to the next step whatever a step returned.
initializeKeepsGoing(S, f) ==
  LET S1 == Log(createInstance(Enter(S, "initialize"), f), "createInstance")
      S2 == Log(pickPhysicalDevice(S1, f), "pickPhysicalDevice")
      S3 == Log(createLogicalDevice(S2, f), "createLogicalDevice")
      S4 == Log(createCommandPools(S3, f), "createCommandPools")
      S5 == Log(createSyncObjects(S4, f), "createSyncObjects")
  IN  Log(createDescriptorPool(S5, f), "createDescriptorPool")

initialize(S, f) ==
  LET r == Rank(f)
      S1 == Log(createInstance(Enter(S, "initialize"), f), "createInstance")
      S2 == IF r > 1 THEN Log(pickPhysicalDevice(S1, f), "pickPhysicalDevice")
            ELSE S1
      S3 == IF r > 2
            THEN Log(createLogicalDevice(S2, f), "createLogicalDevice")
            ELSE S2
      S4 == IF r > 3 THEN Log(createCommandPools(S3, f), "createCommandPools")
            ELSE S3
      S5 == IF r > 5 THEN Log(createSyncObjects(S4, f), "createSyncObjects")
            ELSE S4
      S6 == IF r > 8
            THEN Log(createDescriptorPool(S5, f), "createDescriptorPool")
            ELSE S5
  IN  S6

\* The loop of createLogicalDevice over the families i, i+1, ... (indices
\* from 0): a family that has a bit overwrites the index recorded for it.
RECURSIVE scanQueueFamilies(_, _, _)
scanQueueFamilies(q, fams, i) ==
  IF i >= Len(fams) THEN q
  ELSE scanQueueFamilies(
         [graphics |-> IF "G" \in fams[i + 1] THEN i ELSE q.graphics,
          compute |-> IF "C" \in fams[i + 1] THEN i ELSE q.compute,
          transfer |-> IF "T" \in fams[i + 1] THEN i ELSE q.transfer],
         fams, i + 1)

\* The three members when createLogicalDevice has looked at the families,
\* and whether it goes on to vkCreateDevice.  vk_device.cpp resets the
\* members before the loop and leaves them as the loop set them;
\* vulkan_renderer_native.cpp starts from their current values and gives
\* the graphics index to a compute / transfer member that is UINT32_MAX.
findQueueFamilies(b, S, fams) ==
  LET none == [graphics |-> UINT32_MAX, compute |-> UINT32_MAX,
               transfer |-> UINT32_MAX]
      cur == [graphics |-> S.graphicsQueueFamily,
              compute |-> S.computeQueueFamily,
              transfer |-> S.transferQueueFamily]
      q == scanQueueFamilies(IF b = "split" THEN none ELSE cur, fams, 0)
      found == q.graphics # UINT32_MAX
  IN  [ok |-> found,
       q |-> IF b = "native" /\ found
             THEN [q EXCEPT
                     !.compute = IF @ = UINT32_MAX THEN q.graphics ELSE @,
                     !.transfer = IF @ = UINT32_MAX THEN q.graphics ELSE @]
             ELSE q]

\* An initialize() that goes by the injected failure alone.
InitFailureIgnoresPlatform(b, S, f, nd, fams) == f

\* Where initialize() fails on a platform with nd physical devices and the
\* families fams, when f is the Vulkan call that fails (if it is reached):
\* pickPhysicalDevice returns false for deviceCount == 0, and
\* createLogicalDevice returns false before vkCreateDevice when the
\* graphics member is UINT32_MAX after the loop.
InitFailure(b, S, f, nd, fams) ==
  IF Rank(f) = 1 THEN f
  ELSE IF nd = 0 THEN "physical"
  ELSE IF Rank(f) > 2 /\ ~findQueueFamilies(b, S, fams).ok THEN "device"
  ELSE f

\* initialize() on the platform p: pickPhysicalDevice stores the properties
\* of the device it selects, createLogicalDevice the queue families.
initializeOn(b, S, f, p) ==
  LET e == InitFailure(b, S, f, p.devices, p.families)
      Q == findQueueFamilies(b, S, p.families).q
      R == [initialize(S, e) EXCEPT !.platform = p]
      P == IF Rank(e) > 1 /\ p.devices > 0
           THEN [R EXCEPT !.deviceProperties = p.properties]
           ELSE R
  IN  IF Rank(e) > 2
      THEN [P EXCEPT !.graphicsQueueFamily = Q.graphics,
                     !.computeQueueFamily = Q.compute,
                     !.transferQueueFamily = Q.transfer]
      ELSE P

\* A fence created without VK_FENCE_CREATE_SIGNALED_BIT.
FenceCreateUnsignaled == FALSE

\* The fence is created with VK_FENCE_CREATE_SIGNALED_BIT.
FenceCreateSignaled == TRUE

\* initialize() on the platform p, in which the Vulkan call f fails if it
\* is reached (pickPhysicalDevice makes no call that can fail once a device
\* is enumerated).
InitializeOn(f, p) ==
  /\ ~crashed /\ pc = "idle" /\ ~initOK /\ ~renderer.instance
  /\ \A t \in Threads : tpc[t] = "idle"
  /\ nlife < MaxLifecycle /\ nlife + ncalls < MaxOps
  /\ f = "physical" => p.devices = 0
  /\ renderer.platform \in {NoPlatform, p}
  /\ renderer' = initializeOn(build, renderer, f, p)
  /\ LET e == InitFailure(build, renderer, f, p.devices, p.families)
     IN  /\ initOK' = (e = "none")
         /\ signaled' = IF Rank(e) > 8
                        THEN [fence |-> FenceCreateSignaled,
                              imageAvailable |-> FALSE,
                              renderFinished |-> FALSE]
                        ELSE signaled
  /\ nlife' = nlife + 1
  /\ UNCHANGED <<build, crashed, acquired, presentQ, pc, frameBegun, apiLog,
                 callVars, lastAcquire, threadVars>>

\* initialize() on the platform with one device and one family that has
\* every capability (no device at all when pickPhysicalDevice is to fail).
Initialize(f) ==
  InitializeOn(f, [devices |-> IF f = "physical" THEN 0 ELSE 1,
                   families |-> DefaultFamilies,
                   properties |-> DefaultProperties])

\* ---- presentation objects -----------------------------------------------
\* The places where setSurface() can meet a failing Vulkan call (at most
\* one per call; a failing per-image creation is the first of its loop).
SurfaceFailPoints == {"none", "surface", "swapchain", "imageView",
                      "renderPass", "framebuffer", "commandBuffer"}

\* std::vector::resize: keeps the leading elements, pads with null handles.
Resize(v, n) == [i \in 1..n |-> IF i <= Len(v) THEN v[i] ELSE FALSE]

CountLive(v) == Cardinality({i \in DOMAIN v : v[i]})

\* A creation loop that ignores the result of each creation: every element
\* but the failing one receives a new handle.
CreateUnchecked(v, failed) ==
  [i \in DOMAIN v |-> IF failed /\ i = 1 THEN v[i] ELSE TRUE]

\* A creation loop that returns at the first failing creation.
CreateChecked(v, failed) == IF failed THEN v ELSE [i \in DOMAIN v |-> TRUE]

Created(v, failed) == IF failed /\ Len(v) > 0 THEN Len(v) - 1 ELSE Len(v)

\* createInfo.minImageCount: a literal in vulkan_renderer_native.cpp,
\* computed from the surface capabilities in vk_swapchain.cpp (the counts
\* here are far from 2^32, where the uint32_t addition would wrap).
imageCountNative(caps) == MinImages

imageCountSplit(caps) ==
  LET imageCount == caps.minImageCount + 1
  IN  IF caps.maxImageCount > 0 /\ imageCount > caps.maxImageCount
      THEN caps.maxImageCount
      ELSE imageCount

imageCount(b, caps) ==
  IF b = "native" THEN imageCountNative(caps) ELSE imageCountSplit(caps)

createSwapchainNative(S0, n, f) ==
  LET S == [S0 EXCEPT !.minImageCount = imageCountNative(S0.capabilities)]
  IN
  IF f = "swapchain" THEN S
  ELSE LET v == Resize(S.swapchainImageViews, n)
           bad == (f = "imageView")
       IN  Bump(Bump([S EXCEPT !.swapchain = TRUE,
                               !.swapchainImages = n,
                               !.swapchainImageViews = CreateUnchecked(v, bad)],
                     "swapchain", 1),
                "imageView", Created(v, bad))

createSwapchainSplit(S0, n, f) ==
  LET S == [S0 EXCEPT !.minImageCount = imageCountSplit(S0.capabilities)]
  IN
  IF f = "swapchain" THEN S
  ELSE LET v == Resize(S.swapchainImageViews, n)
           bad == (f = "imageView")
       IN  Bump(Bump([S EXCEPT !.swapchain = TRUE,
                               !.swapchainImages = n,
                               !.swapchainImageViews = CreateChecked(v, bad)],
                     "swapchain", 1),
                "imageView", IF bad THEN 0 ELSE n)

createSwapchain(b, S, n, f) ==
  IF b = "native" THEN createSwapchainNative(S, n, f)
  ELSE createSwapchainSplit(S, n, f)

createRenderPass(S, f) ==
  IF f = "renderPass" THEN S
  ELSE Bump([S EXCEPT !.renderPass = TRUE], "renderPass", 1)

createFramebuffers(S, f) ==
  LET v == Resize(S.framebuffers, Len(S.swapchainImageViews))
      bad == (f = "framebuffer")
  IN  Bump([S EXCEPT !.framebuffers = CreateChecked(v, bad)],
           "framebuffer", IF bad THEN 0 ELSE Len(v))

createCommandBuffers(S, f) ==
  LET v == Resize(S.commandBuffers, Len(S.framebuffers))
      bad == (f = "commandBuffer")
  IN  Bump([S EXCEPT !.commandBuffers = CreateChecked(v, bad)],
           "commandBuffer", IF bad THEN 0 ELSE Len(v))

\* setSurface(): only a failing surface creation returns early; the results
\* of the four create steps are ignored.
setSurfaceOn(b, S, n, f, caps) ==
  IF f = "surface" THEN Enter(S, "setSurface")
  ELSE LET S0 == Bump([Enter(S, "setSurface") EXCEPT
                          !.surface = TRUE, !.capabilities = caps],
                      "surface", 1)
           S1 == createSwapchain(b, S0, n, f)
           S2 == createRenderPass(S1, f)
           S3 == createFramebuffers(S2, f)
       IN  createCommandBuffers(S3, f)

\* setSurface(window) for a window whose surface has the capabilities caps
\* and whose swapchain, if it is created, has n images: at least as many
\* as were asked for.
SetSurfaceOn(n, f, caps) ==
  /\ ~crashed /\ pc = "idle" /\ initOK /\ ~frameBegun
  /\ \A t \in Threads : tpc[t] = "idle"
  /\ nlife < MaxLifecycle /\ nlife + ncalls < MaxOps
  /\ n >= imageCount(build, caps)
  /\ renderer' = setSurfaceOn(build, renderer, n, f, caps)
  /\ nlife' = nlife + 1
  /\ acquired' = IF f \in {"surface", "swapchain"} THEN acquired ELSE {}
  /\ presentQ' = IF f \in {"surface", "swapchain"} THEN presentQ ELSE {}
  /\ UNCHANGED <<build, initOK, crashed, signaled, pc, frameBegun, apiLog,
                 callVars, lastAcquire, threadVars>>

\* setSurface(window) for a window whose surface asks for two images.
setSurface(b, S, n, f) == setSurfaceOn(b, S, n, f, DefaultCapabilities)

SetSurface(n, f) == SetSurfaceOn(n, f, DefaultCapabilities)

\* ---- clear colour --------------------------------------------------------
\* A setClearColor that leaves the alpha component as it was.
setClearColorNoAlpha(S, r, g, b, a) ==
  [S EXCEPT !.clearColor = <<r, g, b, S.clearColor[4]>>]

setClearColor(S, r, g, b, a) ==
  [S EXCEPT !.clearColor[1] = r, !.clearColor[2] = g,
            !.clearColor[3] = b, !.clearColor[4] = a]

\* setClearColor looks at no other state and can be called at any time.
SetClearColor(r, g, b, a) ==
  /\ ~crashed
  /\ renderer' = [setClearColor(renderer, r, g, b, a) EXCEPT
                     !.clearColorArgs = <<r, g, b, a>>]
  /\ UNCHANGED <<build, initOK, crashed, signaled, acquired, presentQ, pc,
                 frameBegun, apiLog, callVars, lastAcquire, nlife,
                 threadVars>>

\* ---- getVulkanInfo ---------------------------------------------------------
\* A string is the sequence of its characters.
Digits == <<"0", "1", "2", "3", "4", "5", "6", "7", "8", "9">>

\* std::to_string of an unsigned number: its decimal digits.
RECURSIVE to_string(_)
to_string(n) ==
  IF n < 10 THEN <<Digits[n + 1]>>
  ELSE to_string(n \div 10) \o <<Digits[(n % 10) + 1]>>

VK_VERSION_MAJOR(v) == v \div 2^22
VK_VERSION_MINOR(v) == (v \div 2^12) % 2^10
VK_VERSION_PATCH(v) == v % 2^12

\* getVulkanInfo(): the two version strings of the VulkanInfo it returns.
\* deviceProperties is written where physicalDevice is, and by nothing
\* before; u is the indeterminate content it has until then, which the
\* definition of vulkan_renderer_native.cpp reads and that of vk_utils.cpp
\* does not.
getVulkanInfo(b, S, u) ==
  IF b = "split" /\ ~S.physicalDevice
  THEN [NoInfo EXCEPT !.returned = TRUE]
  ELSE LET props == IF S.physicalDevice THEN S.deviceProperties ELSE u
           apiVer == props.apiVersion
       IN  [apiVersion |-> to_string(VK_VERSION_MAJOR(apiVer)) \o <<".">>
                             \o to_string(VK_VERSION_MINOR(apiVer)) \o <<".">>
                             \o to_string(VK_VERSION_PATCH(apiVer)),
            driverVersion |-> to_string(props.driverVersion),
            returned |-> TRUE]

\* getVulkanInfo is const; the ghost field renderer.info holds the value it
\* returned last.
GetVulkanInfo(u) ==
  /\ ~crashed
  /\ renderer' = [renderer EXCEPT !.info = getVulkanInfo(build, renderer, u)]
  /\ UNCHANGED <<build, initOK, crashed, signaled, acquired, presentQ, pc,
                 frameBegun, apiLog, callVars, lastAcquire, nlife,
                 threadVars>>

\* ---- memory type selection --------------------------------------------------
\* The loop of findMemoryType from index i on: the first type whose bit is
\* set in the filter and that has every required flag; 0 after the loop.
RECURSIVE findMemoryTypeFrom(_, _, _, _)
findMemoryTypeFrom(memoryTypes, typeFilter, properties, i) ==
  IF i >= Len(memoryTypes) THEN 0
  ELSE IF i \in typeFilter /\ properties \subseteq memoryTypes[i + 1]
       THEN i
       ELSE findMemoryTypeFrom(memoryTypes, typeFilter, properties, i + 1)

findMemoryType(memoryTypes, typeFilter, properties) ==
  findMemoryTypeFrom(memoryTypes, typeFilter, properties, 0)

\* allocInfo.memoryTypeIndex = findMemoryType(memoryTypeBits, properties);
\* vkAllocateMemory(device, &allocInfo, ...): the result of findMemoryType
\* goes into the allocation as it is.
allocateMemory(S, memoryTypes, typeFilter, properties) ==
  [S EXCEPT !.allocInfo =
     [memoryTypes |-> memoryTypes, typeFilter |-> typeFilter,
      properties |-> properties,
      memoryTypeIndex |-> findMemoryType(memoryTypes, typeFilter, properties),
      attempted |-> TRUE]]

\* The allocation of one createBuffer or loadTexture on an initialized
\* renderer; a device reports the same memory types every time.
AllocateMemory(memoryTypes, typeFilter, properties) ==
  /\ ~crashed /\ pc = "idle" /\ initOK
  /\ renderer.allocInfo.memoryTypes \in {<<>>, memoryTypes}
  /\ typeFilter \in TypeFilters(memoryTypes)
  /\ renderer' = allocateMemory(renderer, memoryTypes, typeFilter, properties)
  /\ UNCHANGED <<build, initOK, crashed, frameVars, callVars, nlife,
                 threadVars>>

\* ---- destruction --------------------------------------------------------
\* A destruction that does not look at the member first.
DestroyFieldUnguarded(S, fld, kind) ==
  Log(Drop([S EXCEPT ![fld] = FALSE], kind, 1), <<"destroy", fld>>)

\* Destroys the object a handle member names, if the member is not null.
DestroyField(S, fld, kind) ==
  IF S[fld]
  THEN Log(Drop([S EXCEPT ![fld] = FALSE], kind, 1), <<"destroy", fld>>)
  ELSE S

\* for (auto x : v) vkDestroy...(device, x, nullptr); v.clear();
DestroyAll(S, fld, kind) ==
  LogIf(Drop([S EXCEPT ![fld] = <<>>], kind, CountLive(S[fld])),
        Len(S[fld]) > 0, <<"destroy", fld>>)

destroySwapchainNative(S) ==
  LET S1 == DestroyAll(S, "framebuffers", "framebuffer")
      S2 == DestroyAll(S1, "swapchainImageViews", "imageView")
      S3 == DestroyField(S2, "renderPass", "renderPass")
  IN  DestroyField(S3, "swapchain", "swapchain")

destroySwapchainSplit(S) ==
  LET S1 == DestroyAll(S, "swapchainImageViews", "imageView")
  IN  DestroyField(S1, "swapchain", "swapchain")

destroySwapchain(b, S) ==
  IF b = "native" THEN destroySwapchainNative(S) ELSE destroySwapchainSplit(S)

\* A teardown that does not wait for the device.
deviceWaitIdleSkipped(S) == S

\* vkDeviceWaitIdle(device)
deviceWaitIdle(S) == Log(S, <<"wait", "device">>)

\* A clearing of the tables that also starts the handles again at 1.
clearTablesAndCounter(S) ==
  [S EXCEPT !.meshes = <<>>, !.textures = {}, !.shaders = {},
            !.pipelines = {}, !.nextResourceId = 1]

\* meshes.clear(); textures.clear(); shaders.clear(); pipelines.clear();
\* nextResourceId is not assigned.
clearTables(S) ==
  [S EXCEPT !.meshes = <<>>, !.textures = {}, !.shaders = {},
            !.pipelines = {}]

\* shutdown(): the tables are cleared (the Mesh/Texture/Shader/Pipeline
\* structs have no destructor, so the objects they name are not destroyed);
\* destroying the command pool frees the command buffers allocated from it.
shutdown(b, S) ==
  LET E == Enter(S, "shutdown")
      W == deviceWaitIdle(E)
      D0 == Log(clearTables(W), <<"clear", "tables">>)
      D1 == DestroyField(D0, "inFlightFence", "fence")
      D2 == DestroyField(D1, "renderFinishedSemaphore", "semaphore")
      D3 == DestroyField(D2, "imageAvailableSemaphore", "semaphore")
      D4 == destroySwapchain(b, D3)
      D5 == DestroyField(D4, "descriptorPool", "descriptorPool")
      D6 == IF D5.commandPool
            THEN [DestroyField(D5, "commandPool", "commandPool") EXCEPT
                     !.live["commandBuffer"] = 0]
            ELSE D5
      D7 == DestroyField(D6, "computeCommandPool", "commandPool")
      D8 == DestroyField(D7, "device", "device")
      T1 == IF S.device THEN D8 ELSE E
      T2 == DestroyField(T1, "surface", "surface")
  IN  DestroyField(T2, "instance", "instance")

Shutdown ==
  /\ ~crashed /\ pc = "idle"
  /\ \A t \in Threads : tpc[t] = "idle"
  /\ renderer' = shutdown(build, renderer)
  /\ initOK' = FALSE
  /\ signaled' = [fence |-> FALSE, imageAvailable |-> FALSE,
                  renderFinished |-> FALSE]
  /\ acquired' = {}
  /\ presentQ' = {}
  /\ frameBegun' = FALSE
  /\ UNCHANGED <<build, crashed, pc, apiLog, callVars, lastAcquire, nlife,
                 threadVars>>

\* recreateSwapchain(), vulkan_renderer_native.cpp: no result is looked at.
recreateSwapchainNative(S, n, f) ==
  LET W == deviceWaitIdle(Enter(S, "recreateSwapchain"))
      D == destroySwapchainNative(W)
      S1 == Log(createSwapchainNative(D, n, f), <<"create", "swapchain">>)
      S2 == Log(createRenderPass(S1, f), <<"create", "renderPass">>)
      S3 == Log(createFramebuffers(S2, f), <<"create", "framebuffers">>)
  IN  Log(createCommandBuffers(S3, f), <<"create", "commandBuffers">>)

\* recreateSwapchain(), vk_swapchain.cpp: the framebuffers are destroyed
\* after the image views and the swapchain; the render pass and the
\* command buffers are left as they are.
recreateSwapchainSplit(S, n, f) ==
  LET W == deviceWaitIdle(Enter(S, "recreateSwapchain"))
      D1 == destroySwapchainSplit(W)
      D2 == DestroyAll(D1, "framebuffers", "framebuffer")
      S1 == Log(createSwapchainSplit(D2, n, f), <<"create", "swapchain">>)
  IN  Log(createFramebuffers(S1, f), <<"create", "framebuffers">>)

recreateSwapchain(b, S, n, f) ==
  LET R == IF b = "native" THEN recreateSwapchainNative(S, n, f)
           ELSE recreateSwapchainSplit(S, n, f)
  IN  [R EXCEPT !.staleReport = FALSE]

\* recreateSwapchain() is run between two frames on an existing surface.
RecreateSwapchain(n, f) ==
  /\ ~crashed /\ pc = "idle" /\ initOK /\ ~frameBegun /\ renderer.surface
  /\ \A t \in Threads : tpc[t] = "idle"
  /\ nlife < MaxLifecycle /\ nlife + ncalls < MaxOps
  /\ renderer' = recreateSwapchain(build, renderer, n, f)
  /\ nlife' = nlife + 1
  /\ acquired' = {}
  /\ presentQ' = {}
  /\ UNCHANGED <<build, initOK, crashed, signaled, pc, frameBegun, apiLog,
                 callVars, lastAcquire, threadVars>>

\* ---- resource loading ---------------------------------------------------
\* A counter that is read but not advanced.
PostIncrementStuck(n) == n

\* handle = nextResourceId++ : the value the counter holds afterwards.
PostIncrement(n) == n + 1

\* The stubs of vulkan_renderer_native.cpp: return nextResourceId++.
loadStub(S) ==
  [S |-> [S EXCEPT !.nextResourceId = PostIncrement(S.nextResourceId)],
   ret |-> S.nextResourceId]

\* createBuffer() number `call` of a loadMesh, in which the Vulkan call
\* `fk` of createBuffer number `fc` fails (fc = 0: none does).  createBuffer
\* returns void: after a failing vkCreateBuffer no buffer exists, after a
\* failing vkAllocateMemory the buffer exists without memory.
BufferMade(call, fc, fk) == ~(call = fc /\ fk = "create")

MemoryMade(call, fc) == call # fc

\* The Vulkan objects a loadMesh leaves behind: the two staging buffers
\* (createBuffer calls 1 and 3) are destroyed again, the vertex and index
\* buffers (calls 2 and 4) stay.
meshBuild(S, fc, fk) ==
  LET nb == Cardinality({c \in {2, 4} : BufferMade(c, fc, fk)})
      nm == Cardinality({c \in {2, 4} : MemoryMade(c, fc)})
  IN  Bump(Bump(S, "buffer", nb), "memory", nm)

meshRecord(ic) == [indexCount |-> ic]

\* copyBuffer() without the wait for the queue.
copyBufferNoWait(S) == Log(S, <<"submit", "graphicsQueue">>)

\* copyBuffer(), vk_buffer.cpp: a one-time command buffer is submitted to
\* graphicsQueue and vkQueueWaitIdle(graphicsQueue) follows.
copyBuffer(S) ==
  Log(Log(S, <<"submit", "graphicsQueue">>), <<"wait", "graphicsQueue">>)

\* One upload of loadMesh (k = 1 the vertices, k = 2 the indices):
\* createBuffer calls 2k-1 (staging) and 2k (destination).  After a failed
\* createBuffer the calls made on the handle it did not set have no effect
\* here (the other outcome is the crash of LoadMesh).
upload(S, k, fc, fk) ==
  LET sb == BufferMade(2 * k - 1, fc, fk)
      sm == MemoryMade(2 * k - 1, fc)
      db == BufferMade(2 * k, fc, fk)
      dm == MemoryMade(2 * k, fc)
      S1 == Log(Bump(Bump(S, "stagingBuffer", IF sb THEN 1 ELSE 0),
                     "stagingMemory", IF sm THEN 1 ELSE 0),
                <<"create", "staging">>)
      S2 == Log(S1, <<"memcpy", "staging">>)
      S3 == Log(Bump(Bump(S2, "buffer", IF db THEN 1 ELSE 0),
                     "memory", IF dm THEN 1 ELSE 0),
                <<"create", "destination">>)
      S4 == copyBuffer(S3)
      S5 == Log(Drop(S4, "stagingBuffer", IF sb THEN 1 ELSE 0),
                <<"destroy", "staging">>)
  IN  Log(Drop(S5, "stagingMemory", IF sm THEN 1 ELSE 0),
          <<"free", "staging">>)

\* A loadMesh that registers the mesh under the counter without advancing
\* it.
loadMeshSplitKeepsCounter(S, ic, fc, fk) ==
  LET B == upload(upload(Enter(S, "loadMesh"), 1, fc, fk), 2, fc, fk)
      h == B.nextResourceId
  IN  [S |-> [B EXCEPT !.meshes = (h :> meshRecord(ic)) @@ @], ret |-> h]

\* vk_buffer.cpp loadMesh: no result of createBuffer is looked at; the mesh
\* is registered whatever happened.
loadMeshSplit(S, ic, fc, fk) ==
  LET B == upload(upload(Enter(S, "loadMesh"), 1, fc, fk), 2, fc, fk)
      h == B.nextResourceId
  IN  [S |-> [B EXCEPT !.nextResourceId = PostIncrement(h),
                       !.meshes = (h :> meshRecord(ic)) @@ @],
       ret |-> h]

loadMesh(b, S, ic, fc, fk) ==
  IF b = "native" THEN loadStub(S) ELSE loadMeshSplit(S, ic, fc, fk)

\* loadTexture, vk_texture.cpp: sub-step number failAt fails (0: none).
\* 1 image, 2 memory, 3 image view, 4 sampler.  What sub-steps 1..failAt-1
\* created stays as it is.
textureBuild(S, failAt) ==
  LET upto == IF failAt = 0 THEN 4 ELSE failAt - 1
      S1 == IF upto >= 1 THEN Bump(S, "image", 1) ELSE S
      S2 == IF upto >= 2 THEN Bump(S1, "memory", 1) ELSE S1
      S3 == IF upto >= 3 THEN Bump(S2, "imageView", 1) ELSE S2
  IN  IF upto >= 4 THEN Bump(S3, "sampler", 1) ELSE S3

\* Does loadTexture reach the registration when sub-step failAt fails?
TextureRegisters(failAt) == failAt = 0

\* loadTexture with the registration moved in front of the sampler check.
loadTextureSplitLeaky(S, failAt) ==
  LET B == textureBuild(S, failAt)
      h == B.nextResourceId
  IN  IF failAt \in {0, 4}
      THEN [S |-> [B EXCEPT !.nextResourceId = PostIncrement(h),
                            !.textures = @ \cup {h}],
            ret |-> IF failAt = 0 THEN h ELSE Sentinel]
      ELSE [S |-> B, ret |-> Sentinel]

loadTextureSplit(S, failAt) ==
  LET B == textureBuild(S, failAt)
      h == B.nextResourceId
  IN  IF TextureRegisters(failAt)
      THEN [S |-> [B EXCEPT !.nextResourceId = PostIncrement(h),
                            !.textures = @ \cup {h}],
            ret |-> h]
      ELSE [S |-> B, ret |-> Sentinel]

loadTexture(b, S, failAt) ==
  IF b = "native" THEN loadStub(S) ELSE loadTextureSplit(S, failAt)

\* A compileShader that takes its handle before it creates the module.
compileShaderSplitTakesHandleFirst(S, failAt) ==
  LET h == S.nextResourceId
      T == [S EXCEPT !.nextResourceId = h + 1]
  IN  IF failAt # 0 THEN [S |-> T, ret |-> Sentinel]
      ELSE [S |-> [Bump(T, "shaderModule", 1) EXCEPT !.shaders = @ \cup {h}],
            ret |-> h]

\* compileShader, vk_shader.cpp.
compileShaderSplit(S, failAt) ==
  IF failAt # 0 THEN [S |-> S, ret |-> Sentinel]
  ELSE LET B == Bump(S, "shaderModule", 1)
           h == B.nextResourceId
       IN  [S |-> [B EXCEPT !.nextResourceId = PostIncrement(h),
                            !.shaders = @ \cup {h}],
            ret |-> h]

compileShader(b, S, failAt) ==
  IF b = "native" THEN loadStub(S) ELSE compileShaderSplit(S, failAt)

\* createGraphicsPipeline: only the stub exists; it looks at no argument.
createGraphicsPipeline(S, vs, fs) == loadStub(S)

\* A Vulkan call inside the resource call failed.
SubStepFailed(b, fc) == b = "split" /\ fc # 0

CanCall ==
  /\ ~crashed /\ pc = "idle" /\ initOK
  /\ \A t \in Threads : tpc[t] = "idle"
  /\ ncalls < MaxCalls /\ nlife + ncalls < MaxOps

\* The call took the path that ends in `return 0`.
TookFailurePath(b, op, fc) ==
  b = "split" /\ op \in {"loadTexture", "compileShader"} /\ fc # 0

Record(op, R, fc, unresolved) ==
  /\ renderer' = R.S
  /\ lastCall' = [op |-> op, ret |-> R.ret,
                  failed |-> SubStepFailed(build, fc),
                  before |-> Keys(renderer), unresolved |-> unresolved]
  /\ returned' = IF TookFailurePath(build, op, fc) THEN returned
                 ELSE Append(returned, R.ret)
  /\ ncalls' = ncalls + 1

\* loadMesh goes on with an uninitialised or null handle after a failed
\* createBuffer (vkMapMemory, vkCmdCopyBuffer, vkDestroyBuffer on it): the
\* process dies there, or the calls have no effect and loadMesh completes.
\* Neither definition of loadMesh uses normals, normalCount, uvs or uvCount.
LoadMeshWith(ic, normalCount, uvCount, fc, fk, ub) ==
  /\ CanCall
  /\ IF SubStepFailed(build, fc) /\ ub = "crash"
     THEN /\ crashed' = TRUE
          /\ renderer' = meshBuild(renderer, fc, fk)
          /\ lastCall' = [op |-> "loadMesh", ret |-> -1, failed |-> TRUE,
                          before |-> Keys(renderer), unresolved |-> FALSE]
          /\ ncalls' = ncalls + 1
          /\ UNCHANGED returned
     ELSE /\ Record("loadMesh", loadMesh(build, renderer, ic, fc, fk),
                    fc, FALSE)
          /\ UNCHANGED crashed
  /\ UNCHANGED <<build, initOK, frameVars, nlife, threadVars>>

\* loadMesh without normals and uvs (counts 0, null pointers).
LoadMesh(ic, fc, fk, ub) == LoadMeshWith(ic, 0, 0, fc, fk, ub)

\* submitMesh(meshHandle, transform, color): the body is empty and the
\* function is void, so it changes nothing and reports nothing, whatever
\* the handle.  lastCall.arg is the handle it was called with.
submitMesh(S, meshHandle) == S

SubmitMesh(meshHandle) ==
  /\ CanCall
  /\ renderer' = submitMesh(renderer, meshHandle)
  /\ lastCall' = [op |-> "submitMesh", ret |-> 0, failed |-> FALSE,
                  before |-> Keys(renderer), unresolved |-> FALSE,
                  arg |-> meshHandle]
  /\ ncalls' = ncalls + 1
  /\ UNCHANGED <<build, initOK, crashed, returned, frameVars, nlife,
                 threadVars>>

LoadTexture(failAt) ==
  /\ CanCall
  /\ Record("loadTexture", loadTexture(build, renderer, failAt),
            failAt, FALSE)
  /\ UNCHANGED <<build, initOK, crashed, frameVars, nlife, threadVars>>

CompileShader(failAt) ==
  /\ CanCall
  /\ Record("compileShader", compileShader(build, renderer, failAt),
            failAt, FALSE)
  /\ UNCHANGED <<build, initOK, crashed, frameVars, nlife, threadVars>>

CreateGraphicsPipeline(vs, fs) ==
  /\ CanCall
  /\ Record("createGraphicsPipeline",
            createGraphicsPipeline(renderer, vs, fs), 0,
            ~({vs, fs} \subseteq renderer.shaders))
  /\ UNCHANGED <<build, initOK, crashed, frameVars, nlife, threadVars>>

\* ---- the frame ----------------------------------------------------------
AcquireResults == {"SUCCESS", "SUBOPTIMAL", "OUT_OF_DATE"}

\* An acquire or present that also creates a semaphore.
ReportedWithNewSemaphore(S, res) ==
  Bump([S EXCEPT !.staleReport = @ \/ res # "SUCCESS"], "semaphore", 1)

\* What the caller of vkAcquireNextImageKHR / vkQueuePresentKHR was told.
Reported(S, res) == [S EXCEPT !.staleReport = @ \/ res # "SUCCESS"]

\* beginFrame() is entered: the rendering thread is at vkWaitForFences.
BeginFrame ==
  /\ ~crashed /\ pc = "idle" /\ initOK /\ renderer.swapchain
  /\ pc' = "bf_wait"
  /\ apiLog' = <<>>
  /\ UNCHANGED <<build, renderer, initOK, crashed, signaled, acquired,
                 presentQ, frameBegun, callVars, lastAcquire, nlife, threadVars>>

\* A wait that returns whatever the state of the fence (a zero timeout).
FenceWaitSkipped(fenceSignaled) == TRUE

\* vkWaitForFences(inFlightFence, VK_TRUE, UINT64_MAX) returns only once the
\* fence is signaled.  No queue submission names inFlightFence, so after its
\* creation nothing signals it.
FenceWaitReturns(fenceSignaled) == fenceSignaled

WaitFence ==
  /\ pc = "bf_wait"
  /\ FenceWaitReturns(signaled.fence)
  /\ pc' = "bf_reset"
  /\ apiLog' = Append(apiLog, "vkWaitForFences")
  /\ UNCHANGED <<build, renderer, initOK, crashed, signaled, acquired,
                 presentQ, frameBegun, callVars, lastAcquire, nlife, threadVars>>

ResetFence ==
  /\ pc = "bf_reset"
  /\ signaled' = [signaled EXCEPT !.fence = FALSE]
  /\ pc' = "bf_acquire"
  /\ apiLog' = Append(apiLog, "vkResetFences")
  /\ UNCHANGED <<build, renderer, initOK, crashed, acquired, presentQ,
                 frameBegun, callVars, lastAcquire, nlife, threadVars>>

\* Images neither held by the application nor queued for presentation.
FreeImages ==
  (0 .. renderer.swapchainImages - 1) \ (acquired \cup presentQ)

\* vkAcquireNextImageKHR(UINT64_MAX, imageAvailableSemaphore, &imageIndex):
\* blocks while no image is free; the result is not looked at.
AcquireImage(res, i) ==
  /\ pc = "bf_acquire"
  /\ IF res = "OUT_OF_DATE"
     THEN /\ renderer' = Reported(renderer, res)
          /\ UNCHANGED <<acquired, signaled>>
     ELSE /\ i \in FreeImages
          /\ renderer' = [Reported(renderer, res) EXCEPT !.imageIndex = i]
          /\ acquired' = acquired \cup {i}
          /\ signaled' = [signaled EXCEPT !.imageAvailable = TRUE]
  /\ pc' = "idle"
  /\ frameBegun' = TRUE
  /\ apiLog' = Append(apiLog, "vkAcquireNextImageKHR")
  /\ lastAcquire' = res
  /\ UNCHANGED <<build, initOK, crashed, presentQ, callVars, nlife,
                 threadVars>>

\* The Vulkan calls endFrame() issues, in order.
endFrameCalls == <<"vkQueuePresentKHR">>

\* The fence and the semaphores a queue submission of endFrame() signals:
\* endFrame() makes no queue submission.
endFrameSignals == {}

\* vkQueuePresentKHR gives up the acquired image whatever it returns; an
\* out-of-date swapchain does not show it.  The result is not looked at.
EndFrame(res) ==
  /\ ~crashed /\ pc = "idle" /\ initOK /\ frameBegun
  /\ apiLog' = apiLog \o endFrameCalls
  /\ presentQ' = IF res = "OUT_OF_DATE" THEN presentQ
                 ELSE presentQ \cup (acquired \cap {renderer.imageIndex})
  /\ acquired' = acquired \ {renderer.imageIndex}
  /\ renderer' = Reported(renderer, res)
  /\ signaled' = [s \in DOMAIN signaled |->
                    IF s \in endFrameSignals THEN TRUE ELSE signaled[s]]
  /\ frameBegun' = FALSE
  /\ UNCHANGED <<build, initOK, crashed, pc, callVars, lastAcquire, nlife,
                 threadVars>>

\* The presentation engine takes a queued image and gives it back.  (The
\* present waits on renderFinishedSemaphore; the wait unsignals it.)
DevicePresent(i) ==
  /\ i \in presentQ
  /\ presentQ' = presentQ \ {i}
  /\ signaled' = [signaled EXCEPT !.renderFinished = FALSE]
  /\ UNCHANGED <<build, renderer, initOK, crashed, acquired, pc, frameBegun,
                 apiLog, callVars, lastAcquire, nlife, threadVars>>

\* ---- the rendering thread alone -----------------------------------------
MeshFailKinds == {"create", "alloc"}
UBOutcomes == {"crash", "proceed"}

Next ==
  \/ \E f \in DOMAIN InitFailPoints : Initialize(InitFailPoints[f])
  \/ \E n \in MinImages..MaxImages, f \in SurfaceFailPoints : SetSurface(n, f)
  \/ \E n \in MinImages..MaxImages, f \in SurfaceFailPoints \ {"surface"} :
        RecreateSwapchain(n, f)
  \/ Shutdown
  \/ \E ic \in 1..MaxIndexCount, fc \in 0..4, fk \in MeshFailKinds,
        ub \in UBOutcomes : LoadMesh(ic, fc, fk, ub)
  \/ \E failAt \in 0..4 : LoadTexture(failAt)
  \/ \E failAt \in 0..1 : CompileShader(failAt)
  \/ \E vs \in 0..MaxShaderArg, fs \in 0..MaxShaderArg :
        CreateGraphicsPipeline(vs, fs)
  \/ BeginFrame
  \/ WaitFence
  \/ ResetFence
  \/ \E res \in AcquireResults, i \in 0..(MaxImages - 1) : AcquireImage(res, i)
  \/ \E res \in AcquireResults : EndFrame(res)
  \/ \E i \in 0..(MaxImages - 1) : DevicePresent(i)

Spec == Init /\ [][Next]_vars

\* ---- loader threads -----------------------------------------------------
\* Two host threads that call load/compile/create on the same renderer.
\* nextResourceId is a plain uint64_t and no lock is taken anywhere: the
\* read and the write of `handle = nextResourceId++` are separate steps of
\* a thread, and so is the insertion into the table.
LoadKinds == {"loadMesh", "loadTexture", "compileShader",
              "createGraphicsPipeline"}

\* The part of a call that precedes `nextResourceId++`.
buildPart(b, S, kind, fc) ==
  IF b = "native" THEN S
  ELSE CASE kind = "loadMesh" -> meshBuild(S, 0, "create")
         [] kind = "loadTexture" -> textureBuild(S, fc)
         [] kind = "compileShader" ->
              IF fc = 0 THEN Bump(S, "shaderModule", 1) ELSE S
         [] OTHER -> S

\* table[handle] = object
insertPart(b, S, kind, h) ==
  IF b = "native" THEN S
  ELSE CASE kind = "loadMesh" ->
              [S EXCEPT !.meshes = (h :> meshRecord(1)) @@ @]
         [] kind = "loadTexture" -> [S EXCEPT !.textures = @ \cup {h}]
         [] kind = "compileShader" -> [S EXCEPT !.shaders = @ \cup {h}]
         [] OTHER -> S

T_Call(t, kind, fc) ==
  /\ ~crashed /\ initOK /\ pc = "idle" /\ tpc[t] = "idle"
  /\ ncalls < MaxCalls /\ nlife + ncalls < MaxOps
  /\ kind \in {"loadMesh", "createGraphicsPipeline"} => fc = 0
  /\ kind = "compileShader" => fc <= 1
  /\ renderer' = buildPart(build, renderer, kind, fc)
  /\ ncalls' = ncalls + 1
  /\ tloc' = [tloc EXCEPT ![t] = [kind |-> kind, handle |-> 0]]
  /\ tpc' = [tpc EXCEPT ![t] =
               IF TookFailurePath(build, kind, fc) THEN "idle" ELSE "read"]
  /\ UNCHANGED <<build, initOK, crashed, frameVars, returned, lastCall, nlife>>

T_Read(t) ==
  /\ tpc[t] = "read"
  /\ tloc' = [tloc EXCEPT ![t].handle = renderer.nextResourceId]
  /\ tpc' = [tpc EXCEPT ![t] = "write"]
  /\ UNCHANGED <<build, renderer, initOK, crashed, frameVars, callVars, nlife>>

T_Write(t) ==
  /\ tpc[t] = "write"
  /\ renderer' = [renderer EXCEPT
                    !.nextResourceId = PostIncrement(tloc[t].handle)]
  /\ tpc' = [tpc EXCEPT ![t] = "insert"]
  /\ UNCHANGED <<build, initOK, crashed, frameVars, callVars, nlife, tloc>>

T_Return(t) ==
  /\ tpc[t] = "insert"
  /\ renderer' = insertPart(build, renderer, tloc[t].kind, tloc[t].handle)
  /\ returned' = Append(returned, tloc[t].handle)
  /\ tpc' = [tpc EXCEPT ![t] = "idle"]
  /\ UNCHANGED <<build, initOK, crashed, frameVars, lastCall, ncalls, nlife,
                 tloc>>

ConcNext ==
  \/ \E f \in DOMAIN InitFailPoints : Initialize(InitFailPoints[f])
  \/ \E t \in Threads, kind \in LoadKinds, fc \in 0..4 : T_Call(t, kind, fc)
  \/ \E t \in Threads : T_Read(t)
  \/ \E t \in Threads : T_Write(t)
  \/ \E t \in Threads : T_Return(t)

ConcSpec == Init /\ [][ConcNext]_vars

\* ---- initialize and shutdown on every platform ---------------------------
\* The Vulkan calls of initialize() that fail are the ones up to
\* vkCreateDevice.
DeviceNext ==
  \/ /\ ~renderer.instance
     /\ \E f \in {"none", "instance", "physical", "device"},
           p \in IF renderer.platform = NoPlatform
                 THEN [devices : 0..MaxDevices, families : FamilyLists,
                       properties : {DefaultProperties}]
                 ELSE {renderer.platform} :
           InitializeOn(f, p)
  \/ Shutdown

DeviceSpec == Init /\ [][DeviceNext]_vars

\* ---- setSurface on every surface ------------------------------------------
\* Of the Vulkan calls of setSurface() the ones that fail are the creation
\* of the surface and of the swapchain.
SurfaceNext ==
  \/ Initialize("none")
  \/ \E n \in MinImages..(MaxMinImageCount + 1),
        f \in {"none", "surface", "swapchain"},
        caps \in Capabilities : SetSurfaceOn(n, f, caps)
  \/ Shutdown

SurfaceSpec == Init /\ [][SurfaceNext]_vars

\* ---- the clear colour over the life of a renderer ------------------------
ColourNext ==
  \/ Initialize("none")
  \/ \E r, g, b, a \in Floats : SetClearColor(r, g, b, a)
  \/ Shutdown

ColourSpec == Init /\ [][ColourNext]_vars

\* ---- getVulkanInfo on every device ----------------------------------------
\* getVulkanInfo is called where it reads no indeterminate member (the
\* properties argument of GetVulkanInfo is then not looked at).
InfoNext ==
  \/ /\ ~renderer.instance
     /\ \E f \in {"none", "physical"},
           p \in IF renderer.platform = NoPlatform
                 THEN [devices : 0..MaxDevices, families : {DefaultFamilies},
                       properties : Properties]
                 ELSE {renderer.platform} :
           InitializeOn(f, p)
  \/ /\ build = "split" \/ renderer.physicalDevice
     /\ GetVulkanInfo(DefaultProperties)
  \/ Shutdown

InfoSpec == Init /\ [][InfoNext]_vars

\* ---- submitMesh among the calls that fill the mesh table ------------------
SubmitNext ==
  \/ Initialize("none")
  \/ \E ic \in 1..MaxIndexCount, fc \in 0..4, fk \in MeshFailKinds,
        ub \in UBOutcomes : LoadMesh(ic, fc, fk, ub)
  \/ \E h \in 0..(MaxCalls + 1) : SubmitMesh(h)
  \/ Shutdown

SubmitSpec == Init /\ [][SubmitNext]_vars

\* ---- memory allocations on every device ------------------------------------
MemoryNext ==
  \/ Initialize("none")
  \/ /\ initOK
     /\ \E memoryTypes \in IF renderer.allocInfo.memoryTypes = <<>>
                            THEN MemoryTypeLists
                            ELSE {renderer.allocInfo.memoryTypes} :
           \E typeFilter \in TypeFilters(memoryTypes),
              properties \in SUBSET MemoryPropertyFlags :
              AllocateMemory(memoryTypes, typeFilter, properties)
  \/ Shutdown

MemorySpec == Init /\ [][MemoryNext]_vars

\* ---- loadMesh with every combination of attribute counts -------------------
MeshNext ==
  \/ Initialize("none")
  \/ \E ic \in 1..MaxIndexCount, nc \in 0..MaxAttributeCount,
        uc \in 0..MaxAttributeCount, fc \in 0..4, fk \in MeshFailKinds,
        ub \in UBOutcomes : LoadMeshWith(ic, nc, uc, fc, fk, ub)
  \/ Shutdown

MeshSpec == Init /\ [][MeshNext]_vars

\* ---- the frame loop with a device that makes progress --------------------
\* The rendering thread keeps running while it is not blocked, and the
\* presentation engine eventually hands back every image queued to it.
FairSpec ==
  /\ Spec
  /\ WF_vars(WaitFence)
  /\ WF_vars(ResetFence)
  /\ WF_vars(\E res \in AcquireResults, i \in 0..(MaxImages - 1) :
                AcquireImage(res, i))
  /\ WF_vars(\E i \in 0..(MaxImages - 1) : DevicePresent(i))

\* ==== properties =========================================================
BeginFrameCalls ==
  <<"vkWaitForFences", "vkResetFences", "vkAcquireNextImageKHR">>

\* C1: the handles returned by the calls that did not fail, taken in call
\* order on one thread, are strictly increasing (so pairwise distinct) and
\* none of them is 0.
C1_HandlesIncreasing ==
  /\ \A i \in DOMAIN returned : returned[i] # Sentinel
  /\ \A i, j \in DOMAIN returned : i < j => returned[i] < returned[j]

C1_Witness ==
  /\ Len(returned) >= 2
  /\ returned[1] # returned[2]
  /\ ncalls >= 2

\* C2: under FairSpec (the thread runs on when it can, the device hands
\* back what it was given), a beginFrame that was entered after the
\* endFrame of the frame before it leaves its fence wait and returns.
C2_BeginFrameReturns == (pc = "bf_wait" /\ ~frameBegun) ~> (pc = "idle")

\* C3: in every frame a present is preceded by a queue submission of the
\* same endFrame, and that submission signals the render-finished semaphore
\* and the in-flight fence.
C3_SubmitBeforePresent ==
  \A i \in DOMAIN apiLog :
     apiLog[i] = "vkQueuePresentKHR" =>
        /\ \E j \in 1..(i - 1) : apiLog[j] = "vkQueueSubmit"
        /\ {"fence", "renderFinished"} \subseteq endFrameSignals

C6_NoCollidingHandles ==
  \A i, j \in DOMAIN returned : i # j => returned[i] # returned[j]

\* C7: a resource call that returns 0 leaves the key sets of the four
\* tables as they were before the call.
C7_FailedCallAddsNoEntry ==
  [][(ncalls' = ncalls + 1 /\ lastCall'.ret = Sentinel)
       => Keys(renderer') = Keys(renderer)]_vars

C7_Witness ==
  /\ lastCall.op = "loadTexture"
  /\ lastCall.failed
  /\ lastCall.ret = Sentinel
  /\ lastCall.before.textures # {}
  /\ Keys(renderer) = lastCall.before

\* C8: a loadTexture that returns 0 leaves no device object behind: the
\* live objects are the ones that were live before the call.
C8_FailedTextureLeavesNothing ==
  [][(ncalls' = ncalls + 1 /\ lastCall'.op = "loadTexture"
        /\ lastCall'.ret = Sentinel)
       => renderer'.live = renderer.live]_vars

\* C9: a loadMesh in which a buffer creation or a memory allocation failed
\* returns 0 and registers no mesh.
C9_FailedMeshReturnsSentinel ==
  (lastCall.op = "loadMesh" /\ lastCall.failed) =>
     /\ lastCall.ret = Sentinel
     /\ DOMAIN renderer.meshes \subseteq lastCall.before.meshes

\* C10: createGraphicsPipeline with a shader handle that is not a key of
\* the shader table returns 0 and leaves the pipeline table unchanged.
C10_UnresolvedShaderFails ==
  (lastCall.op = "createGraphicsPipeline" /\ lastCall.unresolved) =>
     /\ lastCall.ret = Sentinel
     /\ renderer.pipelines \subseteq lastCall.before.pipelines

\* An initialize() call returns in this step (setSurface and
\* recreateSwapchain, the other calls counted by nlife, need initOK).
InitializeReturns == nlife' = nlife + 1 /\ ~initOK

\* C11: when initialize returns false, the members it sets are null again
\* and no object it created is live: the live objects are the ones that
\* were live before the call.
C11_FailedInitializeLeavesNothing ==
  [][(InitializeReturns /\ ~initOK') =>
        /\ renderer'.live = renderer.live
        /\ \A fld \in {"instance", "device", "commandPool",
                       "computeCommandPool", "imageAvailableSemaphore",
                       "renderFinishedSemaphore", "inFlightFence"} :
              ~renderer'[fld]]_vars

\* The steps of initialize(), in the order of the code.
InitSteps == <<"createInstance", "pickPhysicalDevice", "createLogicalDevice",
               "createCommandPools", "createSyncObjects",
               "createDescriptorPool">>

\* The members a step of initialize() sets hold a handle.
StepDone(S, step) ==
  CASE step = "createInstance" -> S.instance
    [] step = "pickPhysicalDevice" -> S.physicalDevice
    [] step = "createLogicalDevice" -> S.device
    [] step = "createCommandPools" -> S.commandPool /\ S.computeCommandPool
    [] step = "createSyncObjects" ->
         /\ S.imageAvailableSemaphore /\ S.renderFinishedSemaphore
         /\ S.inFlightFence
    [] step = "createDescriptorPool" -> S.descriptorPool

\* C12: the steps initialize took are a leading part of the six steps in
\* their fixed order; every step but the last one taken succeeded (nothing
\* is attempted after a failing step); and it returned true exactly when
\* all six steps were taken and the last one succeeded too.
C12_InitializeOrder ==
  renderer.op = "initialize" =>
     LET L == renderer.log
     IN  /\ Len(L) \in 1..Len(InitSteps)
         /\ L = SubSeq(InitSteps, 1, Len(L))
         /\ \A i \in 1..(Len(L) - 1) : StepDone(renderer, L[i])
         /\ initOK <=> (L = InitSteps /\ StepDone(renderer, L[Len(L)]))

C12_Witness ==
  /\ renderer.op = "initialize"
  /\ ~initOK
  /\ renderer.log = SubSeq(InitSteps, 1, 4)
  /\ renderer.device
  /\ renderer.commandPool /\ ~renderer.computeCommandPool
  /\ ~renderer.inFlightFence /\ ~renderer.descriptorPool

\* vkAcquireNextImageKHR returns in this step.
AcquireReturns == pc = "bf_acquire" /\ pc' = "idle"

\* C13: no image acquisition takes place while a suboptimal or out-of-date
\* report of an acquire or a present has not been followed by a run of
\* recreateSwapchain.
C13_RecreateBeforeNextAcquire ==
  [][AcquireReturns => ~renderer.staleReport]_vars

Range(seq) == {seq[i] : i \in DOMAIN seq}

\* The steps of an invalidation in the order the specification gives them
\* (creating the swapchain includes creating its image views).
InvalidateOrder ==
  << <<"wait", "device">>,
     <<"destroy", "framebuffers">>, <<"destroy", "renderPass">>,
     <<"destroy", "swapchainImageViews">>, <<"destroy", "swapchain">>,
     <<"create", "swapchain">>, <<"create", "renderPass">>,
     <<"create", "framebuffers">> >>

InvalidatePos(step) ==
  CHOOSE i \in DOMAIN InvalidateOrder : InvalidateOrder[i] = step

\* C14: recreateSwapchain first waits for the device; the steps it takes
\* follow one another in the order wait, destroy framebuffers, destroy
\* render pass, destroy image views, destroy swapchain, create swapchain
\* (with its image views), create render pass, create framebuffers; and
\* each of the three rebuilding steps is taken.
C14_RecreateOrder ==
  renderer.op = "recreateSwapchain" =>
     LET L == renderer.log
     IN  /\ Len(L) > 0 /\ L[1] = <<"wait", "device">>
         /\ \A i, j \in DOMAIN L :
               (i < j /\ {L[i], L[j]} \subseteq Range(InvalidateOrder))
                  => InvalidatePos(L[i]) < InvalidatePos(L[j])
         /\ { <<"create", "swapchain">>, <<"create", "renderPass">>,
              <<"create", "framebuffers">> } \subseteq Range(L)

\* The presentation objects are all there: one swapchain, one render pass,
\* and a view, a framebuffer and a command buffer for each swapchain image.
Complete(S) ==
  /\ S.surface /\ S.swapchain /\ S.renderPass
  /\ \A v \in {S.swapchainImageViews, S.framebuffers, S.commandBuffers} :
        Len(v) = S.swapchainImages /\ CountLive(v) = Len(v)

PresentationKinds ==
  {"swapchain", "renderPass", "imageView", "framebuffer", "commandBuffer"}

\* A recreateSwapchain() call returns in this step.
RecreateReturns ==
  nlife' = nlife + 1 /\ renderer'.op = "recreateSwapchain"

\* C15: a recreateSwapchain that starts from a complete set of
\* presentation objects and rebuilds a complete set for the same number of
\* images leaves as many live swapchains, render passes, image views,
\* framebuffers and command buffers as there were before it.
C15_RecreateLeaksNothing ==
  [][(/\ RecreateReturns
      /\ Complete(renderer) /\ Complete(renderer')
      /\ renderer'.swapchainImages = renderer.swapchainImages)
       => \A k \in PresentationKinds :
             renderer'.live[k] = renderer.live[k]]_vars

\* C16: when setSurface or recreateSwapchain has returned, there are as
\* many framebuffers as swapchain image views and as many image views as
\* swapchain images.
C16_CountsAgree ==
  renderer.op \in {"setSurface", "recreateSwapchain"} =>
     /\ Len(renderer.framebuffers) = Len(renderer.swapchainImageViews)
     /\ Len(renderer.swapchainImageViews) = renderer.swapchainImages

DropsDeviceObject(step) ==
  /\ step[1] \in {"destroy", "clear"}
  /\ step[2] \notin {"surface", "instance"}

\* C19: in shutdown and in recreateSwapchain, every step that destroys or
\* drops an object of the device comes after a vkDeviceWaitIdle of the
\* same call, and that wait is the first step of the call.
C19_WaitIdleBeforeDestroy ==
  renderer.op \in {"shutdown", "recreateSwapchain"} =>
     LET L == renderer.log
     IN  \A i \in DOMAIN L :
            DropsDeviceObject(L[i]) =>
               /\ L[1] = <<"wait", "device">>
               /\ i > 1

C19_Witness ==
  /\ renderer.op = "shutdown"
  /\ Len(renderer.log) > 0
  /\ renderer.log[1] = <<"wait", "device">>
  /\ { <<"clear", "tables">>, <<"destroy", "inFlightFence">>,
       <<"destroy", "swapchain">>, <<"destroy", "device">> }
        \subseteq Range(renderer.log)
  /\ ~renderer.device

\* Fewer objects of each of these kinds are live after the step.
Destroyed(kinds) == \A k \in kinds : renderer'.live[k] < renderer.live[k]

\* C20: a step that removes entries from the mesh table destroys buffers
\* and memories, one that removes entries from the texture table destroys
\* images, image views, samplers and memories, and one that removes
\* entries from the shader table destroys shader modules.
C20_RemovalDestroysObjects ==
  [][/\ (DOMAIN renderer'.meshes # DOMAIN renderer.meshes
          /\ DOMAIN renderer'.meshes \subseteq DOMAIN renderer.meshes)
         => Destroyed({"buffer", "memory"})
     /\ (renderer'.textures # renderer.textures
          /\ renderer'.textures \subseteq renderer.textures)
         => Destroyed({"image", "imageView", "sampler", "memory"})
     /\ (renderer'.shaders # renderer.shaders
          /\ renderer'.shaders \subseteq renderer.shaders)
         => Destroyed({"shaderModule"})]_vars

\* The members that name presentation objects.
PresentationFields ==
  {"framebuffers", "renderPass", "swapchainImageViews", "swapchain"}

\* C21: when shutdown has returned on a renderer that had a surface, no
\* framebuffer, render pass, swapchain or surface is live (and no image
\* view, if no texture was ever loaded), and the surface was destroyed
\* after every presentation object that was destroyed.
C21_ShutdownDestroysPresentation ==
  (renderer.op = "shutdown"
     /\ <<"destroy", "surface">> \in Range(renderer.log)) =>
     LET L == renderer.log
     IN  /\ \A k \in {"framebuffer", "renderPass", "swapchain", "surface"} :
               renderer.live[k] = 0
         /\ ncalls = 0 => renderer.live["imageView"] = 0
         /\ \A i, j \in DOMAIN L :
               (L[i] = <<"destroy", "surface">>
                  /\ L[j][1] = "destroy" /\ L[j][2] \in PresentationFields)
                  => j < i

\* C22: a shutdown that follows a shutdown (or runs on a renderer that was
\* only constructed) takes no step, destroys nothing and leaves every
\* member and every live object as it was.
C22_ShutdownIdempotent ==
  [][(renderer.op \in {"shutdown", "constructor"}
        /\ renderer'.op = "shutdown")
       => /\ renderer' = [renderer EXCEPT !.op = "shutdown", !.log = <<>>]
          /\ UNCHANGED <<initOK, frameVars, callVars, nlife>>]_vars

\* A second shutdown has run on a renderer whose first shutdown had an
\* instance and a device to destroy.
C22_Witness ==
  /\ renderer.op = "shutdown" /\ renderer.log = <<>>
  /\ renderer.physicalDevice /\ renderer.nextResourceId > 1
  /\ ~renderer.instance /\ ~renderer.device

\* The steps of one upload in the order the specification gives them,
\* the copy being submitted to queue q.
UploadOrder(q) ==
  << <<"create", "staging">>, <<"memcpy", "staging">>,
     <<"create", "destination">>, <<"submit", q>>, <<"wait", q>>,
     <<"destroy", "staging">>, <<"free", "staging">> >>

\* C23: when loadMesh of vk_buffer.cpp has returned, the steps it took are
\* two uploads, each in the order create staging buffer, copy the host
\* data into it, create destination buffer, submit the copy, wait for the
\* queue of that submission, destroy the staging buffer, free its memory;
\* and no staging buffer and no staging memory is live.
C23_UploadOrder ==
  renderer.op = "loadMesh" =>
     /\ \E q1, q2 \in {"graphicsQueue", "transferQueue", "computeQueue"} :
           renderer.log = UploadOrder(q1) \o UploadOrder(q2)
     /\ renderer.live["stagingBuffer"] = 0
     /\ renderer.live["stagingMemory"] = 0

C23_Witness ==
  /\ renderer.op = "loadMesh"
  /\ lastCall.op = "loadMesh" /\ ~lastCall.failed
  /\ lastCall.ret \in DOMAIN renderer.meshes
  /\ renderer.live["buffer"] = 2 /\ renderer.live["memory"] = 2
  /\ Len(renderer.log) = 14

\* createLogicalDevice has looked at the queue families in the most recent
\* initialize().
FamiliesScanned ==
  renderer.op = "initialize" /\ "createLogicalDevice" \in Range(renderer.log)

\* The indices (from 0) of the families of the platform that have the bit.
FamiliesWith(bit) ==
  {i \in 0..(Len(renderer.platform.families) - 1) :
      bit \in renderer.platform.families[i + 1]}

\* The lowest number of a non-empty set of numbers.
Lowest(I) == CHOOSE i \in I : \A j \in I : i <= j

\* C24: once createLogicalDevice has looked at the queue families, each of
\* graphicsQueueFamily, computeQueueFamily and transferQueueFamily is the
\* lowest index of a family that has the graphics, compute and transfer
\* bit respectively, when there is such a family.
C24_LowestFamilyIndex ==
  FamiliesScanned =>
     /\ FamiliesWith("G") # {} =>
           renderer.graphicsQueueFamily = Lowest(FamiliesWith("G"))
     /\ FamiliesWith("C") # {} =>
           renderer.computeQueueFamily = Lowest(FamiliesWith("C"))
     /\ FamiliesWith("T") # {} =>
           renderer.transferQueueFamily = Lowest(FamiliesWith("T"))

\* C25: when createLogicalDevice has succeeded, graphicsQueueFamily is the
\* index of a family with the graphics bit, computeQueueFamily and
\* transferQueueFamily are indices of families of the device (not
\* UINT32_MAX), and each of the two equals graphicsQueueFamily when no
\* family has its bit.
C25_FamiliesValid ==
  (renderer.op = "initialize" /\ renderer.device) =>
     LET valid == 0..(Len(renderer.platform.families) - 1)
     IN  /\ renderer.graphicsQueueFamily \in FamiliesWith("G")
         /\ renderer.computeQueueFamily \in valid
         /\ renderer.transferQueueFamily \in valid
         /\ FamiliesWith("C") = {} =>
               renderer.computeQueueFamily = renderer.graphicsQueueFamily
         /\ FamiliesWith("T") = {} =>
               renderer.transferQueueFamily = renderer.graphicsQueueFamily

\* C26: when initialize has returned on a platform that enumerates no
\* physical device, or whose device has no family with the graphics bit,
\* it has returned false and there is no logical device.
C26_NoDeviceNoGraphics ==
  (renderer.op = "initialize"
     /\ (renderer.platform.devices = 0 \/ FamiliesWith("G") = {})) =>
     /\ ~initOK
     /\ ~renderer.device
     /\ renderer.live["device"] = 0

C26_Witness ==
  /\ renderer.op = "initialize" /\ ~initOK
  /\ renderer.platform.devices = 1
  /\ FamiliesWith("G") = {} /\ FamiliesWith("C") # {}
  /\ renderer.log =
        <<"createInstance", "pickPhysicalDevice", "createLogicalDevice">>
  /\ renderer.live["device"] = 0

C26_WitnessNoDevice ==
  /\ renderer.op = "initialize" /\ ~initOK
  /\ renderer.platform.devices = 0
  /\ renderer.log = <<"createInstance", "pickPhysicalDevice">>

\* The image count the specification gives for the surface capabilities.
ImageCountFor(caps) ==
  IF caps.maxImageCount = 0 THEN caps.minImageCount + 1
  ELSE IF caps.maxImageCount < caps.minImageCount + 1
       THEN caps.maxImageCount ELSE caps.minImageCount + 1

\* C27: the minImageCount createSwapchain has asked vkCreateSwapchainKHR
\* for is minImageCount + 1 of the surface capabilities when their
\* maxImageCount is 0, and min(maxImageCount, minImageCount + 1) otherwise.
C27_RequestedImageCount ==
  renderer.minImageCount # 0 =>
     renderer.minImageCount = ImageCountFor(renderer.capabilities)

\* C28: after a call setClearColor(r, g, b, a) the clear colour is exactly
\* (r, g, b, a), whatever it was before and whatever has been called since
\* (so the last call wins), and the same call made again changes nothing.
C28_ClearColor ==
  renderer.clearColorArgs # <<>> =>
     LET c == renderer.clearColorArgs
     IN  /\ renderer.clearColor = c
         /\ setClearColor(renderer, c[1], c[2], c[3], c[4]) = renderer

C28_Witness ==
  /\ \A i \in 1..4 : renderer.clearColor[i] \in Floats
  /\ renderer.clearColor[4] # 20
  /\ renderer.clearColor[1] # renderer.clearColor[2]
  /\ renderer.clearColorArgs = renderer.clearColor
  /\ renderer.instance

\* The string major.minor.patch of the packed version v.
VersionString(v) ==
  to_string(v \div 4194304) \o <<".">>
    \o to_string((v \div 4096) % 1024) \o <<".">> \o to_string(v % 4096)

\* C29: the apiVersion and the driverVersion of the VulkanInfo that
\* getVulkanInfo has returned for a selected device are the strings
\* major.minor.patch of the two packed versions in its properties.
C29_VersionStrings ==
  (renderer.info.returned /\ renderer.physicalDevice
     /\ renderer.info.apiVersion # <<>>) =>
     /\ renderer.info.apiVersion =
           VersionString(renderer.deviceProperties.apiVersion)
     /\ renderer.info.driverVersion =
           VersionString(renderer.deviceProperties.driverVersion)

\* C30: a call of submitMesh with a handle that is not a key of the mesh
\* table reports a failure, and leaves the renderer (tables,
\* nextResourceId, sync objects) and the frame state (imageIndex) as they
\* were.
C30_UnknownHandleReported ==
  [][(ncalls' = ncalls + 1 /\ lastCall'.op = "submitMesh"
        /\ lastCall'.arg \notin DOMAIN renderer.meshes)
       => /\ lastCall'.failed
          /\ renderer' = renderer
          /\ UNCHANGED <<frameVars, returned>>]_vars

\* C31: the memory type index of an allocation that createBuffer or
\* loadTexture has attempted has its bit set in the type filter and has
\* every required property flag.
C31_MemoryTypeMatches ==
  renderer.allocInfo.attempted =>
     LET a == renderer.allocInfo
     IN  /\ a.memoryTypeIndex \in a.typeFilter
         /\ a.properties \subseteq a.memoryTypes[a.memoryTypeIndex + 1]

\* C32: a loadMesh in which no Vulkan call fails, whatever normalCount and
\* uvCount are, makes the mesh table one entry larger, maps the handle it
\* returns to a mesh whose indexCount is the argument, and leaves the
\* texture, shader and pipeline tables as they were.
C32_LoadMeshAddsOneMesh ==
  [][\A ic \in 1..MaxIndexCount, nc \in 0..MaxAttributeCount,
        uc \in 0..MaxAttributeCount :
        LoadMeshWith(ic, nc, uc, 0, "create", "proceed") =>
           /\ Cardinality(DOMAIN renderer'.meshes)
                 = Cardinality(DOMAIN renderer.meshes) + 1
           /\ lastCall'.ret \in DOMAIN renderer'.meshes
           /\ renderer'.meshes[lastCall'.ret].indexCount = ic
           /\ renderer'.textures = renderer.textures
           /\ renderer'.shaders = renderer.shaders
           /\ renderer'.pipelines = renderer.pipelines]_vars

\* A step of beginFrame or endFrame: the rendering thread moves or issues
\* a Vulkan call of the frame.
FrameStep == pc' # pc \/ apiLog' # apiLog

\* C33: no step of beginFrame or endFrame changes the four resource tables
\* or nextResourceId, and none creates (or destroys) a semaphore or a
\* fence: the sync members and the live sync objects stay as they are.
C33_FramesLeaveResources ==
  [][FrameStep =>
       /\ renderer'.meshes = renderer.meshes
       /\ Keys(renderer') = Keys(renderer)
       /\ renderer'.nextResourceId = renderer.nextResourceId
       /\ renderer'.live["semaphore"] = renderer.live["semaphore"]
       /\ renderer'.live["fence"] = renderer.live["fence"]
       /\ \A fld \in {"imageAvailableSemaphore", "renderFinishedSemaphore",
                      "inFlightFence"} : renderer'[fld] = renderer[fld]]_vars

C33_Witness ==
  /\ initOK /\ ~frameBegun /\ pc = "idle"
  /\ apiLog = <<"vkWaitForFences", "vkResetFences", "vkAcquireNextImageKHR",
                "vkQueuePresentKHR">>
  /\ renderer.nextResourceId > 1
  /\ lastCall.op # "none"
  /\ renderer.live["semaphore"] = 2 /\ renderer.live["fence"] = 1

\* C34: on the rendering thread, no handle is issued twice in the life of
\* the renderer object, shutdown and a new initialize included:
\* nextResourceId is greater than every handle returned so far.
C34_HandlesNeverReissued ==
  /\ \A i \in DOMAIN returned : returned[i] < renderer.nextResourceId
  /\ \A i, j \in DOMAIN returned : i # j => returned[i] # returned[j]

C34_Witness ==
  /\ build = "split" /\ Len(returned) = 2
  /\ renderer.op = "initialize" /\ nlife >= 2
  /\ lastCall.op = "loadTexture" /\ lastCall.before = NoKeys
  /\ returned[1] = 1 /\ returned[2] = 2
  /\ renderer.textures = {2}

\* C35: a present waits on a render-finished semaphore that a submission
\* of the frame has signalled; when endFrame has returned the
\* image-available semaphore that the acquire signalled has been waited on
\* (it is unsignalled again), and an acquire signals it only when it is
\* unsignalled.
C35_SemaphoresPaired ==
  [][/\ apiLog' = Append(apiLog, "vkQueuePresentKHR") =>
          /\ signaled.renderFinished
          /\ ~signaled'.imageAvailable
     /\ (apiLog' = Append(apiLog, "vkAcquireNextImageKHR")
           /\ acquired' # acquired) => ~signaled.imageAvailable]_vars

\* C36: the fence is signaled when a successful initialize returns, and
\* stays so until a vkResetFences of beginFrame (or a shutdown); and a
\* rendering thread that waits on a signaled fence goes on to the reset.
\* So the first beginFrame after a successful initialize and setSurface
\* does not block on the fence.
C36_FirstWaitDoesNotBlock ==
  /\ [][(initOK' /\ ~initOK) => signaled'.fence]_vars
  /\ [][(signaled.fence /\ ~signaled'.fence)
          => (pc = "bf_reset" \/ ~initOK')]_vars
  /\ (pc = "bf_wait" /\ signaled.fence) ~> (pc = "bf_reset")

C36_Witness ==
  /\ initOK /\ renderer.swapchain
  /\ pc = "bf_reset" /\ apiLog = <<"vkWaitForFences">>
  /\ signaled.fence /\ lastAcquire = "none"

\* C37: a compileShader or loadTexture that fails leaves nextResourceId as
\* it was and returns no handle; the handles the calls of the rendering
\* thread have returned are 1, 2, 3, ... in call order.
C37_FailedCallTakesNoHandle ==
  /\ [][(ncalls' = ncalls + 1
           /\ lastCall'.op \in {"loadTexture", "compileShader"}
           /\ lastCall'.failed)
          => /\ renderer'.nextResourceId = renderer.nextResourceId
             /\ lastCall'.ret = Sentinel
             /\ returned' = returned]_vars
  /\ [](\A i \in DOMAIN returned : returned[i] = i)

C37_Witness ==
  /\ build = "split" /\ ~crashed
  /\ ncalls = 2 /\ returned = <<1>>
  /\ lastCall.op \in {"loadTexture", "compileShader"}
  /\ ~lastCall.failed /\ lastCall.ret = 1
  /\ renderer.nextResourceId = 2

\* C38: on the rendering thread, the key sets of the meshes, textures,
\* shaders and pipelines tables are pairwise disjoint, and every key is
\* nonzero and less than nextResourceId.
C38_KeysDisjointAndIssued ==
  LET K == Keys(renderer)
      T == DOMAIN K
  IN  /\ \A a, b \in T : a # b => K[a] \cap K[b] = {}
      /\ \A a \in T : \A k \in K[a] :
            k # Sentinel /\ k > 0 /\ k < renderer.nextResourceId

C38_Witness ==
  /\ DOMAIN renderer.meshes # {}
  /\ renderer.textures \cup renderer.shaders # {}
  /\ renderer.nextResourceId = 3

\* A setSurface() call returns in this step.
SetSurfaceReturns ==
  nlife' = nlife + 1 /\ renderer'.op = "setSurface"

\* The kinds of object setSurface creates.
SurfaceKinds == PresentationKinds \cup {"surface"}

\* C39: when setSurface returns, either the surface, the swapchain, the
\* render pass, the framebuffers and the command buffers all exist or the
\* call created none of them; and at most one surface and one swapchain
\* are live, so an earlier surface or swapchain is not left behind.
C39_SetSurfaceAllOrNothing ==
  [][SetSurfaceReturns =>
       /\ \/ Complete(renderer')
          \/ \A k \in SurfaceKinds : renderer'.live[k] <= renderer.live[k]
       /\ renderer'.live["surface"] <= 1
       /\ renderer'.live["swapchain"] <= 1]_vars

\* C40: when a setSurface that created its surface, or a recreateSwapchain,
\* returns, there are as many command buffers as framebuffers; and when
\* beginFrame returns, the stored imageIndex is below both numbers.
C40_ImageIndexSelectsExisting ==
  [][/\ ((SetSurfaceReturns
            /\ renderer'.live["surface"] > renderer.live["surface"])
          \/ RecreateReturns)
         => Len(renderer'.commandBuffers) = Len(renderer'.framebuffers)
     /\ AcquireReturns =>
           /\ renderer'.imageIndex < Len(renderer'.framebuffers)
           /\ renderer'.imageIndex < Len(renderer'.commandBuffers)]_vars

====
